---- MODULE Spec2Model ----
(***************************************************************************)
(* Hours-of-Service trip simulation of eld-backend                         *)
(* (backend/apps/core/views.py: generate_trip_plan, run_hos_simulation     *)
(* with its closures add_log_entry and simulate_segment).                  *)
(*                                                                         *)
(* Numbers.  Python mixes ints (minute cursor, entry durations) with       *)
(* floats (leg distances, step_time, the shift counters once a driving     *)
(* chunk was added).  A float quantity q is held here as the integer       *)
(* q * Scale, i.e. in units of 1/Scale mile or minute; an int quantity is  *)
(* held as itself.  int(x) truncates a float to an int.                    *)
(* (step_dist / AVG_MPH) * 60 is computed exactly: for the distances used  *)
(* its float value truncates to the same int and compares the same way     *)
(* against the integer thresholds.                                         *)
(***************************************************************************)
EXTENDS Integers, Sequences, FiniteSets, TLC

VARIABLES
    dist_to_pickup,     \* argument of run_hos_simulation (float, scaled)
    dist_to_drop,       \* argument of run_hos_simulation (float, scaled)
    cycle_used_start,   \* argument of run_hos_simulation (hours)
    pc,                 \* position in generate_trip_plan / run_hos_simulation
    generated_logs,     \* list of closed day logs
    current_day_log,    \* the day log being filled
    day_minute,         \* minute-of-day cursor (int)
    on_duty_shift,      \* scaled
    drive_shift,        \* scaled
    drive_since_break,  \* scaled
    fuel_tank,          \* scaled miles since the last refuel
    dist_remaining,     \* local of simulate_segment (scaled)
    response,           \* response_data of generate_trip_plan, <<>> before it is built
    last_step,          \* history: name of the step taken last
    calls,              \* history: number of invocations started so far
    first_call,         \* history: inputs and logs of the first finished invocation
    request,            \* locals of generate_trip_plan ahead of the simulation
    last_call,          \* history: the ledger before the last direct add_log_entry call
    plan                \* locals of plan_eld_route (services.py)

vars == <<dist_to_pickup, dist_to_drop, cycle_used_start, pc, generated_logs,
          current_day_log, day_minute, on_duty_shift, drive_shift,
          drive_since_break, fuel_tank, dist_remaining, response, last_step,
          calls, first_call, request, last_call, plan>>

(***************************************************************************)
(* Bounds of the model.                                                    *)
(***************************************************************************)
MaxFrac == 1        \* leg distances carry a fraction f/Scale, f in 0..MaxFrac
MaxLeg1 == 72       \* leg 1 ranges over 0, 10, .. 10*MaxLeg1 miles (+ fraction)
MaxLeg2 == 8        \* leg 2 ranges over 0, 50, .. 50*MaxLeg2 miles (+ fraction)
MaxCycle == 1       \* cycleUsed ranges over 0..MaxCycle hours
MaxRepLeg == 2      \* repeated calls: leg 1 over 0, 600, .. 600*MaxRepLeg miles
MaxRepCycle == 2    \* repeated calls: cycleUsed over 0..MaxRepCycle hours
MaxCalls == 2       \* repeated calls: number of invocations
MaxLongLeg1 == 164  \* long trips: leg 1 over 0, 5, .. 5*MaxLongLeg1 miles

Scale == MaxFrac + 1

Whole(n) == n * Scale

\* int(x) of Python: truncation toward zero
int(x) == IF x >= 0 THEN x \div Scale ELSE -((-x) \div Scale)

\* round(x) of Python 3: to nearest, ties to even
round(x) ==
    LET q == x \div Scale
        r == x % Scale
    IN  IF 2 * r < Scale THEN q
        ELSE IF 2 * r > Scale THEN q + 1
        ELSE IF q % 2 = 0 THEN q ELSE q + 1

min(a, b) == IF a <= b THEN a ELSE b

(***************************************************************************)
(* Module constants, views.py:17-23.                                       *)
(***************************************************************************)
MAX_DRIVE_SHIFT == 11 * 60
MAX_ON_DUTY_SHIFT == 14 * 60
REQ_BREAK_AFTER == 8 * 60
SLEEPER_SPLIT == 10 * 60
BREAK_DURATION == 30
FUEL_RANGE_MILES == 1000
AVG_MPH == 60

(***************************************************************************)
(* add_log_entry.  The ledger is the triple of nonlocals it reads and      *)
(* writes: generated_logs, current_day_log, day_minute.                    *)
(***************************************************************************)
Ledger(logs, cur, minute) ==
    [generated_logs |-> logs, current_day_log |-> cur, day_minute |-> minute]

NewDayLog(n) == [date |-> n, miles |-> 0, entries |-> <<>>]

\* else-branch: the entry fits into the current day
AppendWhole_NoAdvance(L, status, d, note) ==
    [L EXCEPT !.current_day_log.entries =
                  Append(@, [status |-> status,
                             startMinute |-> L.day_minute,
                             endMinute |-> L.day_minute + d,
                             duration |-> d,
                             note |-> note])]

AppendWhole(L, status, d, note) ==
    [L EXCEPT !.current_day_log.entries =
                  Append(@, [status |-> status,
                             startMinute |-> L.day_minute,
                             endMinute |-> L.day_minute + d,
                             duration |-> d,
                             note |-> note]),
              !.day_minute = @ + d]

\* the closing piece written with the whole duration instead of what fits
SplitAtMidnight_WholeDuration(L, status, d, note) ==
    LET closed == [L.current_day_log EXCEPT !.entries =
                      Append(@, [status |-> status,
                                 startMinute |-> L.day_minute,
                                 endMinute |-> 1440,
                                 duration |-> d,
                                 note |-> note])]
        logs == Append(L.generated_logs, closed)
    IN  Ledger(logs, NewDayLog(Len(logs) + 1), 0)

\* if-branch up to the recursive call: fill the day, close it, open the next
SplitAtMidnight(L, status, d, note) ==
    LET fit == 1440 - L.day_minute
        closed == [L.current_day_log EXCEPT !.entries =
                      Append(@, [status |-> status,
                                 startMinute |-> L.day_minute,
                                 endMinute |-> 1440,
                                 duration |-> fit,
                                 note |-> note])]
        logs == Append(L.generated_logs, closed)
    IN  Ledger(logs, NewDayLog(Len(logs) + 1), 0)

\* the day closed as soon as an entry reaches minute 1440
RECURSIVE add_log_entry_SplitAtEnd(_, _, _, _)
add_log_entry_SplitAtEnd(L, status, duration, note) ==
    LET d == int(duration) IN
    IF d <= 0 THEN L
    ELSE IF L.day_minute + d >= 1440
         THEN LET remainder == (L.day_minute + d) - 1440
              IN  add_log_entry_SplitAtEnd(SplitAtMidnight(L, status, d, note),
                                           status, Whole(remainder), note)
         ELSE AppendWhole(L, status, d, note)

RECURSIVE add_log_entry(_, _, _, _)
add_log_entry(L, status, duration, note) ==
    LET d == int(duration) IN
    IF d <= 0 THEN L
    ELSE IF L.day_minute + d > 1440
         THEN LET remainder == (L.day_minute + d) - 1440
              IN  add_log_entry(SplitAtMidnight(L, status, d, note),
                                status, Whole(remainder), note)
         ELSE AppendWhole(L, status, d, note)

TheLedger == Ledger(generated_logs, current_day_log, day_minute)

Record(status, duration, note) ==
    LET L == add_log_entry(TheLedger, status, duration, note)
    IN  /\ generated_logs' = L.generated_logs
        /\ current_day_log' = L.current_day_log
        /\ day_minute' = L.day_minute

(***************************************************************************)
(* Inputs.                                                                 *)
(***************************************************************************)
Fracs == 0 .. MaxFrac
Leg1Values == {Whole(10 * k) + f : k \in 0 .. MaxLeg1, f \in Fracs}
Leg2Values == {Whole(50 * k) + f : k \in 0 .. MaxLeg2, f \in Fracs}
CycleValues == 0 .. MaxCycle

LongLeg1Values == {Whole(5 * k) : k \in 0 .. MaxLongLeg1}

RepLeg1Values == {Whole(600 * k) : k \in 0 .. MaxRepLeg}
RepLeg2Values == {Whole(0), Whole(100)}
RepCycleValues == 0 .. MaxRepCycle

NoCall == [done |-> FALSE]

None == "None"

\* value of calculate_distance: miles, or None
Miles(d) == [asked |-> TRUE, found |-> TRUE, miles |-> d]
NoMiles == [asked |-> TRUE, found |-> FALSE, miles |-> 0]
NotAsked == [asked |-> FALSE, found |-> FALSE, miles |-> 0]

\* generate_trip_plan's locals once every lookup has answered
GeocodedRequest(l1, l2, c) ==
    [cycle_used |-> c,
     start_coords |-> "coords", pickup_coords |-> "coords",
     dropoff_coords |-> "coords",
     dist_start_pick |-> Miles(l1), dist_pick_drop |-> Miles(l2)]

NoLedgerCall ==
    [n |-> 0, before |-> Ledger(<<>>, NewDayLog(1), 0),
     status |-> "", duration |-> 0, note |-> ""]

NoPlan == [pc |-> "idle", days |-> <<>>]

\* run_hos_simulation's locals as created on entry
Locals(l1, l2, c) ==
    /\ dist_to_pickup = l1
    /\ dist_to_drop = l2
    /\ cycle_used_start = c
    /\ generated_logs = <<>>
    /\ current_day_log = NewDayLog(1)
    /\ day_minute = 0
    /\ on_duty_shift = 0
    /\ drive_shift = 0
    /\ drive_since_break = 0
    /\ fuel_tank = 0
    /\ dist_remaining = 0
    /\ response = <<>>
    /\ pc = "pretrip"

Init ==
    /\ \E l1 \in Leg1Values, l2 \in Leg2Values, c \in CycleValues :
           Locals(l1, l2, c) /\ request = GeocodedRequest(l1, l2, c)
    /\ last_step = "enter"
    /\ calls = 1
    /\ first_call = NoCall
    /\ last_call = NoLedgerCall
    /\ plan = NoPlan

InitRepeat ==
    /\ \E l1 \in RepLeg1Values, l2 \in RepLeg2Values, c \in RepCycleValues :
           Locals(l1, l2, c) /\ request = GeocodedRequest(l1, l2, c)
    /\ last_step = "enter"
    /\ calls = 1
    /\ first_call = NoCall
    /\ last_call = NoLedgerCall
    /\ plan = NoPlan

inputs == <<dist_to_pickup, dist_to_drop, cycle_used_start>>
counters == <<on_duty_shift, drive_shift, drive_since_break, fuel_tank>>
ledger == <<generated_logs, current_day_log, day_minute>>
history == <<calls, first_call>>
outside == <<request, last_call, plan>>

(***************************************************************************)
(* The trip script and simulate_segment.                                   *)
(***************************************************************************)
PreTrip ==
    /\ pc = "pretrip"
    /\ Record("ON", Whole(30), "Pre-Trip Inspection")
    /\ on_duty_shift' = on_duty_shift + Whole(30)
    /\ pc' = "call1"
    /\ last_step' = "PreTrip"
    /\ UNCHANGED <<inputs, drive_shift, drive_since_break, fuel_tank,
                   dist_remaining, response, history, outside>>

\* the two legs driven in the other order
CallSegment_Swapped ==
    /\ pc \in {"call1", "call2"}
    /\ dist_remaining' = IF pc = "call1" THEN dist_to_drop ELSE dist_to_pickup
    /\ pc' = IF pc = "call1" THEN "seg1" ELSE "seg2"
    /\ last_step' = "CallSegment"
    /\ UNCHANGED <<inputs, counters, ledger, response, history, outside>>

\* simulate_segment(distance): dist_remaining = distance
CallSegment ==
    /\ pc \in {"call1", "call2"}
    /\ dist_remaining' = IF pc = "call1" THEN dist_to_pickup ELSE dist_to_drop
    /\ pc' = IF pc = "call1" THEN "seg1" ELSE "seg2"
    /\ last_step' = "CallSegment"
    /\ UNCHANGED <<inputs, counters, ledger, response, history, outside>>

InSegment == pc \in {"seg1", "seg2"} /\ dist_remaining > 0

NeedsRefuel == fuel_tank >= Whole(FUEL_RANGE_MILES)

NeedsBreak_Strict == drive_since_break > Whole(REQ_BREAK_AFTER)

NeedsBreak == drive_since_break >= Whole(REQ_BREAK_AFTER)

NeedsReset_OnDutyOnly == on_duty_shift >= Whole(MAX_ON_DUTY_SHIFT)

NeedsReset_CountsCycle ==
    \/ drive_shift >= Whole(MAX_DRIVE_SHIFT)
    \/ on_duty_shift + Whole(cycle_used_start * 60) >= Whole(MAX_ON_DUTY_SHIFT)

NeedsReset ==
    \/ drive_shift >= Whole(MAX_DRIVE_SHIFT)
    \/ on_duty_shift >= Whole(MAX_ON_DUTY_SHIFT)

Refuel ==
    /\ InSegment
    /\ NeedsRefuel
    /\ Record("ON", Whole(30), "Refuel")
    /\ on_duty_shift' = on_duty_shift + Whole(30)
    /\ fuel_tank' = 0
    /\ last_step' = "Refuel"
    /\ UNCHANGED <<inputs, pc, drive_shift, drive_since_break, dist_remaining,
                   response, history, outside>>

\* the break leaving the on-duty counter alone
Break_OffTheClock ==
    /\ InSegment
    /\ ~NeedsRefuel
    /\ NeedsBreak
    /\ Record("OFF", Whole(30), "Mandated 30m Break")
    /\ drive_since_break' = 0
    /\ last_step' = "Break"
    /\ UNCHANGED <<inputs, pc, on_duty_shift, drive_shift, fuel_tank,
                   dist_remaining, response, history, outside>>

Break ==
    /\ InSegment
    /\ ~NeedsRefuel
    /\ NeedsBreak
    /\ Record("OFF", Whole(30), "Mandated 30m Break")
    /\ on_duty_shift' = on_duty_shift + Whole(30)
    /\ drive_since_break' = 0
    /\ last_step' = "Break"
    /\ UNCHANGED <<inputs, pc, drive_shift, fuel_tank, dist_remaining,
                   response, history, outside>>

\* the reset rule tested ahead of the refuel rule
Reset_BeforeRefuel ==
    /\ InSegment
    /\ ~NeedsBreak
    /\ NeedsReset
    /\ Record("SB", Whole(SLEEPER_SPLIT), "10h Reset (Sleeper Berth)")
    /\ on_duty_shift' = 0
    /\ drive_shift' = 0
    /\ drive_since_break' = 0
    /\ last_step' = "Reset"
    /\ UNCHANGED <<inputs, pc, fuel_tank, dist_remaining, response, history, outside>>

Reset ==
    /\ InSegment
    /\ ~NeedsRefuel
    /\ ~NeedsBreak
    /\ NeedsReset
    /\ Record("SB", Whole(SLEEPER_SPLIT), "10h Reset (Sleeper Berth)")
    /\ on_duty_shift' = 0
    /\ drive_shift' = 0
    /\ drive_since_break' = 0
    /\ last_step' = "Reset"
    /\ UNCHANGED <<inputs, pc, fuel_tank, dist_remaining, response, history, outside>>

\* the chunk's miles credited to the DayLog closed last, when there is one
Drive_MilesToClosedDay ==
    /\ InSegment
    /\ ~NeedsRefuel
    /\ ~NeedsBreak
    /\ ~NeedsReset
    /\ LET step_dist == min(dist_remaining, Whole(60))
           step_time == (step_dist * 60) \div AVG_MPH
           L == add_log_entry(TheLedger, "D", step_time, "Driving")
           n == Len(L.generated_logs)
       IN  /\ generated_logs' =
                  IF n = 0 THEN L.generated_logs
                  ELSE [L.generated_logs EXCEPT ![n].miles = @ + step_dist]
           /\ current_day_log' =
                  IF n = 0
                  THEN [L.current_day_log EXCEPT !.miles = @ + step_dist]
                  ELSE L.current_day_log
           /\ day_minute' = L.day_minute
           /\ on_duty_shift' = on_duty_shift + step_time
           /\ drive_shift' = drive_shift + step_time
           /\ drive_since_break' = drive_since_break + step_time
           /\ fuel_tank' = fuel_tank + step_dist
           /\ dist_remaining' = dist_remaining - step_dist
    /\ last_step' = "Drive"
    /\ UNCHANGED <<inputs, pc, response, history, outside>>

Drive ==
    /\ InSegment
    /\ ~NeedsRefuel
    /\ ~NeedsBreak
    /\ ~NeedsReset
    /\ LET step_dist == min(dist_remaining, Whole(60))
           step_time == (step_dist * 60) \div AVG_MPH
           L == add_log_entry(TheLedger, "D", step_time, "Driving")
       IN  /\ generated_logs' = L.generated_logs
           /\ current_day_log' =
                  [L.current_day_log EXCEPT !.miles = @ + step_dist]
           /\ day_minute' = L.day_minute
           /\ on_duty_shift' = on_duty_shift + step_time
           /\ drive_shift' = drive_shift + step_time
           /\ drive_since_break' = drive_since_break + step_time
           /\ fuel_tank' = fuel_tank + step_dist
           /\ dist_remaining' = dist_remaining - step_dist
    /\ last_step' = "Drive"
    /\ UNCHANGED <<inputs, pc, response, history, outside>>

\* while dist_remaining > 0 is false: simulate_segment returns
ReturnSegment ==
    /\ pc \in {"seg1", "seg2"}
    /\ dist_remaining <= 0
    /\ pc' = IF pc = "seg1" THEN "loading" ELSE "unloading"
    /\ last_step' = "ReturnSegment"
    /\ UNCHANGED <<inputs, counters, ledger, dist_remaining, response, history, outside>>

\* loading that takes three hours
Loading_ThreeHours ==
    /\ pc = "loading"
    /\ Record("ON", Whole(180), "Loading at Pickup")
    /\ on_duty_shift' = on_duty_shift + Whole(180)
    /\ pc' = "call2"
    /\ last_step' = "Loading"
    /\ UNCHANGED <<inputs, drive_shift, drive_since_break, fuel_tank,
                   dist_remaining, response, history, outside>>

Loading ==
    /\ pc = "loading"
    /\ Record("ON", Whole(60), "Loading at Pickup")
    /\ on_duty_shift' = on_duty_shift + Whole(60)
    /\ pc' = "call2"
    /\ last_step' = "Loading"
    /\ UNCHANGED <<inputs, drive_shift, drive_since_break, fuel_tank,
                   dist_remaining, response, history, outside>>

Unloading ==
    /\ pc = "unloading"
    /\ Record("ON", Whole(60), "Unloading at Dropoff")
    /\ on_duty_shift' = on_duty_shift + Whole(60)
    /\ pc' = "posttrip"
    /\ last_step' = "Unloading"
    /\ UNCHANGED <<inputs, drive_shift, drive_since_break, fuel_tank,
                   dist_remaining, response, history, outside>>

PostTrip ==
    /\ pc = "posttrip"
    /\ Record("ON", Whole(15), "Post-Trip Inspection")
    /\ pc' = "pad"
    /\ last_step' = "PostTrip"
    /\ UNCHANGED <<inputs, counters, dist_remaining, response, history, outside>>

\* final padding, generated_logs.append(current_day_log), return
PadAndReturn ==
    /\ pc = "pad"
    /\ LET L == IF day_minute < 1440
                THEN add_log_entry(TheLedger, "OFF",
                                   Whole(1440 - day_minute), "Off Duty")
                ELSE TheLedger
       IN  /\ generated_logs' = Append(L.generated_logs, L.current_day_log)
           /\ current_day_log' = L.current_day_log
           /\ day_minute' = L.day_minute
    /\ pc' = "respond"
    /\ last_step' = "PadAndReturn"
    /\ UNCHANGED <<inputs, counters, dist_remaining, response, history, outside>>

\* generate_trip_plan after the simulation returned
Respond ==
    /\ pc = "respond"
    /\ response' = [status |-> "success",
                    routeData |-> [totalMiles |->
                                       round(dist_to_pickup + dist_to_drop)],
                    logs |-> generated_logs]
    /\ pc' = "done"
    /\ last_step' = "Respond"
    /\ UNCHANGED <<inputs, counters, ledger, dist_remaining, history, outside>>

\* a later request: run_hos_simulation is entered again and builds its locals
NewInvocation_SharedLogs(l1, l2, c) ==
    /\ dist_to_pickup' = l1
    /\ dist_to_drop' = l2
    /\ cycle_used_start' = c
    /\ generated_logs' = generated_logs
    /\ current_day_log' = NewDayLog(Len(generated_logs) + 1)
    /\ day_minute' = 0
    /\ on_duty_shift' = 0
    /\ drive_shift' = 0
    /\ drive_since_break' = 0
    /\ fuel_tank' = 0
    /\ dist_remaining' = 0
    /\ response' = <<>>
    /\ pc' = "pretrip"

NewInvocation(l1, l2, c) ==
    /\ dist_to_pickup' = l1
    /\ dist_to_drop' = l2
    /\ cycle_used_start' = c
    /\ generated_logs' = <<>>
    /\ current_day_log' = NewDayLog(1)
    /\ day_minute' = 0
    /\ on_duty_shift' = 0
    /\ drive_shift' = 0
    /\ drive_since_break' = 0
    /\ fuel_tank' = 0
    /\ dist_remaining' = 0
    /\ response' = <<>>
    /\ pc' = "pretrip"

Reinvoke ==
    /\ pc = "done"
    /\ calls < MaxCalls
    /\ \E l1 \in RepLeg1Values, l2 \in RepLeg2Values, c \in RepCycleValues :
           NewInvocation(l1, l2, c) /\ request' = GeocodedRequest(l1, l2, c)
    /\ calls' = calls + 1
    /\ first_call' = IF first_call.done THEN first_call
                     ELSE [done |-> TRUE,
                           dist_to_pickup |-> dist_to_pickup,
                           dist_to_drop |-> dist_to_drop,
                           cycle_used_start |-> cycle_used_start,
                           response |-> response]
    /\ last_step' = "enter"
    /\ UNCHANGED <<last_call, plan>>

Next ==
    \/ PreTrip
    \/ CallSegment
    \/ Refuel
    \/ Break
    \/ Reset
    \/ Drive
    \/ ReturnSegment
    \/ Loading
    \/ Unloading
    \/ PostTrip
    \/ PadAndReturn
    \/ Respond

Spec == Init /\ [][Next]_vars

\* the same program serving several requests one after the other
NextRepeat ==
    \/ Next
    \/ Reinvoke

SpecRepeat == InitRepeat /\ [][NextRepeat]_vars

\* trips long enough for the fuel range to run out: leg 2 is 1250 miles
InitLong ==
    /\ \E l1 \in LongLeg1Values :
           Locals(l1, Whole(1250), 0)
           /\ request = GeocodedRequest(l1, Whole(1250), 0)
    /\ last_step = "enter"
    /\ calls = 1
    /\ first_call = NoCall
    /\ last_call = NoLedgerCall
    /\ plan = NoPlan

SpecLong == InitLong /\ [][Next]_vars

(***************************************************************************)
(* add_log_entry on its own: direct calls with any status, duration and    *)
(* note, one after the other on the same ledger.                           *)
(***************************************************************************)
MaxLedgerCalls == 3 \* number of successive direct calls

LedgerDurations == {Whole(d) : d \in {0 - 1, 0, 1, 30, 1409, 1410, 1440, 3000}}
LedgerLabels == {<<"ON", "Refuel">>, <<"D", "Driving">>}

InitLedger ==
    /\ dist_to_pickup = 0
    /\ dist_to_drop = 0
    /\ cycle_used_start = 0
    /\ generated_logs = <<>>
    /\ current_day_log = NewDayLog(1)
    /\ day_minute = 0
    /\ on_duty_shift = 0
    /\ drive_shift = 0
    /\ drive_since_break = 0
    /\ fuel_tank = 0
    /\ dist_remaining = 0
    /\ response = <<>>
    /\ pc = "ledger"
    /\ last_step = "enter"
    /\ calls = 1
    /\ first_call = NoCall
    /\ request = GeocodedRequest(0, 0, 0)
    /\ last_call = NoLedgerCall
    /\ plan = NoPlan

\* add_log_entry(status, duration, note)
LedgerCall ==
    /\ pc = "ledger"
    /\ last_call.n < MaxLedgerCalls
    /\ \E lab \in LedgerLabels, duration \in LedgerDurations :
           /\ Record(lab[1], duration, lab[2])
           /\ last_call' = [n |-> last_call.n + 1, before |-> TheLedger,
                            status |-> lab[1], duration |-> duration,
                            note |-> lab[2]]
    /\ last_step' = "LedgerCall"
    /\ UNCHANGED <<inputs, counters, dist_remaining, pc, response, history,
                   request, plan>>

NextLedger == LedgerCall

SpecLedger == InitLedger /\ [][NextLedger]_vars

(***************************************************************************)
(* generate_trip_plan ahead of the simulation: the request is parsed, the  *)
(* three addresses are geocoded, the two leg distances are looked up.      *)
(* get_coordinates and calculate_distance call an outside service and      *)
(* return a value or None.                                                 *)
(***************************************************************************)
MaxReqLeg == 2      \* request: each distance over -350, 0, .. 350*MaxReqLeg miles

ReqDistValues == {Whole(350 * k) : k \in (0 - 1) .. MaxReqLeg}
ReqCycleValues == (0 - 1) .. MaxCycle

UnsetRequest ==
    [cycle_used |-> 0,
     start_coords |-> "unset", pickup_coords |-> "unset",
     dropoff_coords |-> "unset",
     dist_start_pick |-> NotAsked, dist_pick_drop |-> NotAsked]

\* before run_hos_simulation is entered its locals do not exist: they are
\* held at the values they are created with
InitRequest ==
    /\ dist_to_pickup = 0
    /\ dist_to_drop = 0
    /\ cycle_used_start = 0
    /\ generated_logs = <<>>
    /\ current_day_log = NewDayLog(1)
    /\ day_minute = 0
    /\ on_duty_shift = 0
    /\ drive_shift = 0
    /\ drive_since_break = 0
    /\ fuel_tank = 0
    /\ dist_remaining = 0
    /\ response = <<>>
    /\ pc = "parse"
    /\ request = UnsetRequest
    /\ last_step = "enter"
    /\ calls = 1
    /\ first_call = NoCall
    /\ last_call = NoLedgerCall
    /\ plan = NoPlan

simulation == <<inputs, counters, ledger, dist_remaining>>

\* json.loads / float(...) at the head of the try block
ParseRequest ==
    /\ pc = "parse"
    /\ \/ \E c \in ReqCycleValues :
              /\ request' = [request EXCEPT !.cycle_used = c]
              /\ pc' = "geocode"
              /\ UNCHANGED response
       \/ /\ response' = [error |-> "exception", http_status |-> 500]
          /\ pc' = "done"
          /\ UNCHANGED request
    /\ last_step' = "ParseRequest"
    /\ UNCHANGED <<simulation, history, last_call, plan>>

Geocode ==
    /\ pc = "geocode"
    /\ \E a \in {"coords", None}, b \in {"coords", None}, c \in {"coords", None} :
           request' = [request EXCEPT !.start_coords = a,
                                      !.pickup_coords = b,
                                      !.dropoff_coords = c]
    /\ pc' = "check_geocode"
    /\ last_step' = "Geocode"
    /\ UNCHANGED <<simulation, response, history, last_call, plan>>

\* all([...]) with any() in its place
AllGeocoded_Any ==
    \/ request.start_coords # None
    \/ request.pickup_coords # None
    \/ request.dropoff_coords # None

AllGeocoded ==
    /\ request.start_coords # None
    /\ request.pickup_coords # None
    /\ request.dropoff_coords # None

GeocodeCheck ==
    /\ pc = "check_geocode"
    /\ IF ~AllGeocoded
       THEN /\ response' = [error |-> "Could not geocode one of the locations.",
                            http_status |-> 400]
            /\ pc' = "done"
       ELSE /\ pc' = "distance"
            /\ UNCHANGED response
    /\ last_step' = "GeocodeCheck"
    /\ UNCHANGED <<simulation, request, history, last_call, plan>>

Distance ==
    /\ pc = "distance"
    /\ \E d1 \in {Miles(d) : d \in ReqDistValues} \cup {NoMiles},
          d2 \in {Miles(d) : d \in ReqDistValues} \cup {NoMiles} :
           request' = [request EXCEPT !.dist_start_pick = d1,
                                      !.dist_pick_drop = d2]
    /\ pc' = "check_distance"
    /\ last_step' = "Distance"
    /\ UNCHANGED <<simulation, response, history, last_call, plan>>

DistanceMissing ==
    ~request.dist_start_pick.found \/ ~request.dist_pick_drop.found

DistanceCheck ==
    /\ pc = "check_distance"
    /\ IF DistanceMissing
       THEN /\ response' = [error |-> "Could not calculate route distance via API.",
                            http_status |-> 500]
            /\ pc' = "done"
       ELSE /\ pc' = "simulate"
            /\ UNCHANGED response
    /\ last_step' = "DistanceCheck"
    /\ UNCHANGED <<simulation, request, history, last_call, plan>>

\* logs = run_hos_simulation(dist_start_pick, dist_pick_drop, cycle_used)
EnterSimulation ==
    /\ pc = "simulate"
    /\ NewInvocation(request.dist_start_pick.miles, request.dist_pick_drop.miles,
                     request.cycle_used)
    /\ last_step' = "EnterSimulation"
    /\ UNCHANGED <<request, history, last_call, plan>>

NextRequest ==
    \/ ParseRequest
    \/ Geocode
    \/ GeocodeCheck
    \/ Distance
    \/ DistanceCheck
    \/ EnterSimulation
    \/ Next

SpecRequest == InitRequest /\ [][NextRequest]_vars

\* status of a JsonResponse: 200 unless given
HttpStatus(resp) ==
    IF "http_status" \in DOMAIN resp THEN resp.http_status ELSE 200

(***************************************************************************)
(* plan_eld_route (services.py) with its default parameters.  Time is held *)
(* in minutes and distance in twelfths of a mile, so that a minute of      *)
(* driving at 55 mph is a whole number (11) of distance units.  The floats *)
(* of the code do not sit exactly on that grid: remaining_miles is held as *)
(* a whole number of units plus a residue flag, TRUE when the float is     *)
(* above the grid value by a rounding error.  Where the code compares or   *)
(* subtracts two floats that are equal on the grid, both outcomes of the   *)
(* rounding are taken.                                                     *)
(***************************************************************************)
MaxPlanSteps == 220 \* the route takes 0, 7, .. 7*MaxPlanSteps minutes to drive
MaxPlanCycle == 1   \* current_cycle_used ranges over 0..MaxPlanCycle hours

avg_speed_mph == 55
max_drive_per_day == 11
max_on_duty_per_day == 14
pickup_time_h == 1
dropoff_time_h == 1
fueling_time_h == 1
fueling_interval_miles == 1000
break_after_continuous_drive == 8
\* break_duration_h = 0.5, in minutes
break_duration_min == 30
\* the safety stop: if day_index > 30: break
MaxDayIndex == 30

Hours(h) == h * 60
MileUnits(miles) == miles * 12

\* blk * avg_speed, blk in minutes, in distance units
MilesDriven(blk) == (blk * avg_speed_mph) \div 5

\* miles / avg_speed, in minutes
HoursToDrive(miles) == (miles * 5) \div avg_speed_mph

\* round(h, 2) of a time held in minutes: hundredths of an hour
round_hours(minutes) == (minutes * 5 + 1) \div 3

\* round(m, 2) of a distance held in twelfths of a mile: hundredths of a mile
round_miles(units) == (units * 25 + 1) \div 3

\* strftime("%H:%M"): the minute of the day, the date is dropped
strftime(t) == t % 1440

\* 06:00
day_start_time == Hours(6)

PlanRouteValues == {MilesDriven(7 * k) : k \in 0 .. MaxPlanSteps}
PlanCycleValues == {Hours(c) : c \in 0 .. MaxPlanCycle}

Segment(start, dur, status, miles, notes) ==
    [start_time |-> strftime(start), end_time |-> strftime(start + dur),
     status |-> status, duration_h |-> round_hours(dur),
     miles |-> round_miles(miles), notes |-> notes]

\* the while loop that cuts the day's driving into blocks of at most 8 hours
\* with a break (a negative number) between two blocks
RECURSIVE Blocks(_)
Blocks(hours_left_to_allocate) ==
    IF hours_left_to_allocate <= 0 THEN <<>>
    ELSE LET block == min(hours_left_to_allocate,
                          Hours(break_after_continuous_drive))
             left == hours_left_to_allocate - block
         IN  <<block>>
             \o (IF left > 0 THEN <<0 - break_duration_min>> ELSE <<>>)
             \o Blocks(left)

\* the driving allowed today without the cap on driving
allowed_drive_today_OnDutyOnly(day_on_duty) ==
    Hours(max_on_duty_per_day) - day_on_duty

allowed_drive_today(day_on_duty) ==
    min(Hours(max_drive_per_day), Hours(max_on_duty_per_day) - day_on_duty)

\* remaining_miles > 0
MilesLeft(p) == p.remaining_miles > 0 \/ p.residue

\* the blocks when the hours to allocate exceed drive_hours by a rounding
\* error: the error is part of the last block, or a block of its own
BlocksOver(drive_hours) ==
    IF drive_hours = 0 THEN <<0>>
    ELSE IF drive_hours % Hours(break_after_continuous_drive) = 0
         THEN Blocks(drive_hours) \o <<0 - break_duration_min, 0>>
         ELSE Blocks(drive_hours)

PlanLocals(total_miles, residue, current_cycle_used) ==
    [pc |-> "loop",
     total_miles |-> total_miles,
     remaining_miles |-> total_miles,
     residue |-> residue,
     finishing |-> FALSE,
     pos_mile |-> 0,
     fuel_next_at |-> MileUnits(fueling_interval_miles),
     days |-> <<>>,
     day_index |-> 1,
     cycle_used |-> current_cycle_used,
     segments |-> <<>>,
     day_driving_done |-> 0,
     day_on_duty |-> 0,
     blocks |-> <<>>,
     current_time |-> day_start_time,
     result |-> <<>>]

InitPlan ==
    /\ dist_to_pickup = 0
    /\ dist_to_drop = 0
    /\ cycle_used_start = 0
    /\ generated_logs = <<>>
    /\ current_day_log = NewDayLog(1)
    /\ day_minute = 0
    /\ on_duty_shift = 0
    /\ drive_shift = 0
    /\ drive_since_break = 0
    /\ fuel_tank = 0
    /\ dist_remaining = 0
    /\ response = <<>>
    /\ pc = "plan_eld_route"
    /\ last_step = "enter"
    /\ calls = 1
    /\ first_call = NoCall
    /\ request = GeocodedRequest(0, 0, 0)
    /\ last_call = NoLedgerCall
    /\ \E t \in PlanRouteValues, r \in BOOLEAN, c \in PlanCycleValues :
           plan = PlanLocals(t, r, c)

notplan == <<inputs, counters, ledger, dist_remaining, pc, response, history,
             request, last_call>>

\* while remaining_miles > 0: a new day begins, or the loop ends
PlanLoop ==
    /\ plan.pc = "loop"
    /\ plan' = IF MilesLeft(plan)
               THEN [plan EXCEPT !.segments = <<>>,
                                 !.day_driving_done = 0,
                                 !.day_on_duty = 0,
                                 !.pc = "pickup"]
               ELSE [plan EXCEPT !.pc = "return"]
    /\ last_step' = "PlanLoop"
    /\ UNCHANGED notplan

\* if day_index == 1: the pickup, one hour from 06:00
PlanPickup ==
    /\ plan.pc = "pickup"
    /\ plan' = IF plan.day_index = 1
               THEN [plan EXCEPT
                        !.segments = Append(@, Segment(day_start_time,
                                                       Hours(pickup_time_h),
                                                       "ON_DUTY", 0, "Pickup")),
                        !.day_on_duty = @ + Hours(pickup_time_h),
                        !.pc = "allocate"]
               ELSE [plan EXCEPT !.pc = "allocate"]
    /\ last_step' = "PlanPickup"
    /\ UNCHANGED notplan

\* the driving of the day and its blocks; the clock is set back to 06:00
PlanAllocate ==
    /\ plan.pc = "allocate"
    /\ LET possible_drive_hours == HoursToDrive(plan.remaining_miles)
           allowed == allowed_drive_today(plan.day_on_duty)
           drive_hours_today == min(allowed, possible_drive_hours)
           \* possible_drive_hours is the smaller one: the day ends the route
           finishing == \/ possible_drive_hours < allowed
                        \/ possible_drive_hours = allowed /\ ~plan.residue
           \* the rounding error of remaining_miles shows in the hours to
           \* allocate, always so when there is nothing else to allocate
           overs == IF plan.residue /\ possible_drive_hours < allowed
                    THEN (IF possible_drive_hours = 0 THEN {TRUE} ELSE BOOLEAN)
                    ELSE {FALSE}
       IN  \E over \in overs :
               plan' = [plan EXCEPT
                           !.blocks = IF over THEN BlocksOver(drive_hours_today)
                                      ELSE Blocks(drive_hours_today),
                           !.finishing = finishing,
                           !.current_time = day_start_time,
                           !.pc = "blocks"]
    /\ last_step' = "PlanAllocate"
    /\ UNCHANGED notplan

\* for blk in blocks: blk < 0, a break
PlanBreak ==
    /\ plan.pc = "blocks"
    /\ plan.blocks # <<>>
    /\ Head(plan.blocks) < 0
    /\ LET b == 0 - Head(plan.blocks)
       IN  plan' = [plan EXCEPT
                       !.segments = Append(@, Segment(plan.current_time, b,
                                                      "OFF_DUTY", 0,
                                                      "Mandatory break")),
                       !.current_time = @ + b,
                       !.blocks = Tail(@)]
    /\ last_step' = "PlanBreak"
    /\ UNCHANGED notplan

\* for blk in blocks: a driving block, followed by fueling when due
PlanDrive ==
    /\ plan.pc = "blocks"
    /\ plan.blocks # <<>>
    /\ Head(plan.blocks) >= 0
    /\ LET over == MilesDriven(Head(plan.blocks)) > plan.remaining_miles
           miles_chunk == IF over THEN plan.remaining_miles
                          ELSE MilesDriven(Head(plan.blocks))
           blk == IF over THEN HoursToDrive(miles_chunk) ELSE Head(plan.blocks)
           driven == Segment(plan.current_time, blk, "DRIVING", miles_chunk, "")
           after == plan.current_time + blk
           remaining == plan.remaining_miles - miles_chunk
           pos == plan.pos_mile + miles_chunk
           \* the block computed from remaining_miles / avg_speed: the chunk
           \* is remaining_miles up to a rounding error
           last == plan.finishing /\ Tail(plan.blocks) = <<>>
       IN  \E residue \in IF last THEN BOOLEAN ELSE {plan.residue} :
           LET fuel == pos >= plan.fuel_next_at /\ (remaining > 0 \/ residue)
           IN
           plan' = [plan EXCEPT
                       !.segments =
                           IF fuel
                           THEN @ \o <<driven,
                                       Segment(after, Hours(fueling_time_h),
                                               "ON_DUTY", 0, "Fuel")>>
                           ELSE Append(@, driven),
                       !.current_time =
                           IF fuel THEN after + Hours(fueling_time_h) ELSE after,
                       !.day_driving_done = @ + blk,
                       !.day_on_duty =
                           IF fuel THEN @ + blk + Hours(fueling_time_h)
                           ELSE @ + blk,
                       !.remaining_miles = remaining,
                       !.residue = residue,
                       !.pos_mile = pos,
                       !.fuel_next_at =
                           IF fuel THEN @ + MileUnits(fueling_interval_miles)
                           ELSE @,
                       !.blocks = Tail(@)]
    /\ last_step' = "PlanDrive"
    /\ UNCHANGED notplan

\* after the blocks: the final dropoff once the route is finished
PlanDropoff ==
    /\ plan.pc = "blocks"
    /\ plan.blocks = <<>>
    /\ plan' = IF ~MilesLeft(plan)
               THEN [plan EXCEPT
                        !.segments = Append(@, Segment(plan.current_time,
                                                       Hours(dropoff_time_h),
                                                       "ON_DUTY", 0,
                                                       "Dropoff final")),
                        !.day_on_duty = @ + Hours(dropoff_time_h),
                        !.current_time = @ + Hours(dropoff_time_h),
                        !.pc = "endday"]
               ELSE [plan EXCEPT !.pc = "endday"]
    /\ last_step' = "PlanDropoff"
    /\ UNCHANGED notplan

\* the day's summary is appended and the next day prepared
PlanEndDay ==
    /\ plan.pc = "endday"
    /\ LET summary == [start_time_day |-> strftime(day_start_time),
                       end_time_day |-> strftime(plan.current_time),
                       driving_hours |-> round_hours(plan.day_driving_done),
                       on_duty_hours |-> round_hours(plan.day_on_duty),
                       segments |-> plan.segments]
       IN  plan' = [plan EXCEPT
                       !.days = Append(@, [day |-> plan.day_index,
                                           segments |-> summary]),
                       !.cycle_used = @ + plan.day_on_duty,
                       !.day_index = @ + 1,
                       !.pc = IF plan.day_index + 1 > MaxDayIndex
                              THEN "return" ELSE "loop"]
    /\ last_step' = "PlanEndDay"
    /\ UNCHANGED notplan

PlanReturn ==
    /\ plan.pc = "return"
    /\ plan' = [plan EXCEPT
                   !.result =
                       [total_miles |-> round_miles(plan.total_miles),
                        estimated_driving_hours |->
                            round_hours(HoursToDrive(plan.total_miles)),
                        planned_days |-> plan.days,
                        final_cycle_used |-> round_hours(plan.cycle_used)],
                   !.pc = "returned"]
    /\ last_step' = "PlanReturn"
    /\ UNCHANGED notplan

NextPlan ==
    \/ PlanLoop
    \/ PlanPickup
    \/ PlanAllocate
    \/ PlanBreak
    \/ PlanDrive
    \/ PlanDropoff
    \/ PlanEndDay
    \/ PlanReturn

SpecPlan == InitPlan /\ [][NextPlan]_vars

(***************************************************************************)
(* Properties.                                                             *)
(***************************************************************************)
\* every day log that exists: the closed ones and the one being filled
DayLogs ==
    IF pc \in {"respond", "done"} THEN generated_logs
    ELSE Append(generated_logs, current_day_log)

Returned == pc = "done"

RECURSIVE SumDuration(_, _)
SumDuration(entries, statuses) ==
    IF entries = <<>> THEN 0
    ELSE (IF Head(entries).status \in statuses THEN Head(entries).duration ELSE 0)
         + SumDuration(Tail(entries), statuses)

RECURSIVE SumOverDays(_, _)
SumOverDays(logs, statuses) ==
    IF logs = <<>> THEN 0
    ELSE SumDuration(Head(logs).entries, statuses) + SumOverDays(Tail(logs), statuses)

HasEntry(log, status, start, end) ==
    \E i \in 1 .. Len(log.entries) :
        /\ log.entries[i].status = status
        /\ log.entries[i].startMinute = start
        /\ log.entries[i].endMinute = end

WholeMiles == dist_to_pickup % Scale = 0 /\ dist_to_drop % Scale = 0

\* C1: every timeline entry of every returned DayLog has duration > 0,
\* duration = endMinute - startMinute and 0 <= startMinute < endMinute <= 1440,
\* also when it was recorded with the cursor at exactly 1440.
C1_PositiveDurations ==
    Returned =>
        \A i \in 1 .. Len(response.logs) :
            \A j \in 1 .. Len(response.logs[i].entries) :
                LET e == response.logs[i].entries[j]
                IN  /\ e.duration > 0
                    /\ e.duration = e.endMinute - e.startMinute
                    /\ 0 <= e.startMinute
                    /\ e.startMinute < e.endMinute
                    /\ e.endMinute <= 1440

\* C2: at every point of the simulation and in the result, the entries of each
\* DayLog are contiguous and ordered: entry[j].endMinute = entry[j+1].startMinute,
\* the first entry starts at minute >= 0 and the last ends at minute <= 1440.
C2_Contiguous ==
    \A i \in 1 .. Len(DayLogs) :
        LET es == DayLogs[i].entries
        IN  /\ \A j \in 1 .. Len(es) - 1 : es[j].endMinute = es[j + 1].startMinute
            /\ es # <<>> => (es[1].startMinute >= 0 /\ es[Len(es)].endMinute <= 1440)

\* a returned two-day result whose first day holds several entries and ends
\* with the first half of a split entry
C2_Witness ==
    /\ Returned
    /\ Len(response.logs) >= 2
    /\ Len(response.logs[1].entries) >= 3
    /\ response.logs[1].entries[Len(response.logs[1].entries)].endMinute = 1440
    /\ response.logs[2].entries[1].startMinute = 0
    /\ response.logs[2].entries[1].note =
           response.logs[1].entries[Len(response.logs[1].entries)].note

\* C3: the durations of all DRIVING entries of the returned DayLogs sum to
\* exactly leg1 + leg2 minutes, for whole and for fractional miles.
C3_DrivingTotal ==
    Returned =>
        Whole(SumOverDays(response.logs, {"D"})) = dist_to_pickup + dist_to_drop

\* C4: whenever simulate_segment records a new driving chunk, the counters at
\* that instant are strictly below their thresholds: drive_since_break < 480,
\* drive_shift < 660, on_duty_shift < 840, fuel_tank < 1000.
C4_ChunkBelowThresholds ==
    [][ last_step' = "Drive" =>
            /\ drive_since_break < Whole(480)
            /\ drive_shift < Whole(660)
            /\ on_duty_shift < Whole(840)
            /\ fuel_tank < Whole(1000) ]_vars

\* a chunk was just driven that took the break counter up to its threshold
C4_Witness ==
    /\ last_step = "Drive"
    /\ drive_since_break >= Whole(480)
    /\ dist_remaining > 0

\* C5: in every reachable state drive_since_break <= 480, drive_shift <= 660
\* and on_duty_shift <= 840.
C5_WithinLimits ==
    /\ drive_since_break <= Whole(480)
    /\ drive_shift <= Whole(660)
    /\ on_duty_shift <= Whole(840)

\* C6: each returned DayLog's miles equals the minutes of the DRIVING entries
\* of that same DayLog (1 mile per minute), also for a chunk split at the day
\* boundary.  Stated for whole-mile legs, where no minute is lost to int().
C6_MilesMatchDriving ==
    (Returned /\ WholeMiles) =>
        \A i \in 1 .. Len(response.logs) :
            response.logs[i].miles =
                Whole(SumDuration(response.logs[i].entries, {"D"}))

C8_FinalCycleHours ==
    Returned =>
        /\ "finalCycleHoursUsed" \in DOMAIN response
        /\ response.finalCycleHoursUsed * 60 =
               cycle_used_start * 60
               + SumOverDays(response.logs, {"ON", "D", "SB"})

\* C9: for fixed leg distances the DayLogs are the same for every two values
\* of cycle_used_start.
C9_CycleIgnored ==
    ( /\ Returned
      /\ first_call.done
      /\ first_call.dist_to_pickup = dist_to_pickup
      /\ first_call.dist_to_drop = dist_to_drop )
    => response.logs = first_call.response.logs

\* two invocations with the same legs, different cycleUsed, on a trip that
\* needs a reset
C9_Witness ==
    /\ Returned
    /\ first_call.done
    /\ first_call.dist_to_pickup = dist_to_pickup
    /\ first_call.dist_to_drop = dist_to_drop
    /\ first_call.cycle_used_start # cycle_used_start
    /\ SumOverDays(response.logs, {"SB"}) > 0

Trip700 == dist_to_pickup = Whole(700) /\ dist_to_drop = 0

\* C10 as stated: for leg1 = 700, leg2 = 0 the forced 600-minute reset spans a
\* day boundary, so at least two DayLogs exist when Loading is recorded.
C10_ResetSpansDays ==
    (Trip700 /\ pc = "loading") =>
        /\ Len(DayLogs) >= 2
        /\ \E j \in 1 .. Len(DayLogs[1].entries) :
               /\ DayLogs[1].entries[j].status = "SB"
               /\ DayLogs[1].entries[j].endMinute = 1440

\* C10 amended: for leg1 = 700, leg2 = 0 drive_shift reaches 660 before leg 1
\* completes and forces one 600-minute sleeper-berth reset, which lies in
\* Day 1 (minutes 720 to 1320) and is followed by the rest of the leg; Day 1
\* is the only DayLog when Loading is recorded.
C10_ResetWithinDay1 ==
    (Trip700 /\ pc = "loading") =>
        /\ Len(DayLogs) = 1
        /\ HasEntry(DayLogs[1], "SB", 720, 1320)
        /\ SumDuration(DayLogs[1].entries, {"SB"}) = 600
        /\ HasEntry(DayLogs[1], "D", 1320, 1360)
        /\ drive_shift = Whole(40)

\* the 700-mile trip with Loading recorded
C10_Witness ==
    /\ Trip700
    /\ last_step = "Loading"
    /\ HasEntry(DayLogs[1], "ON", 1360, 1420)

(***************************************************************************)
(* generate_trip_plan.                                                     *)
(***************************************************************************)
SimulationSteps ==
    {"EnterSimulation", "PreTrip", "CallSegment", "Refuel", "Break", "Reset",
     "Drive", "ReturnSegment", "Loading", "Unloading", "PostTrip",
     "PadAndReturn", "Respond"}

SimulationEntered == last_step \in SimulationSteps

LedgerUntouched ==
    /\ generated_logs = <<>>
    /\ current_day_log = NewDayLog(1)
    /\ day_minute = 0

SomeGeocodeFailed ==
    None \in {request.start_coords, request.pickup_coords, request.dropoff_coords}

EveryGeocodeAnswered ==
    {request.start_coords, request.pickup_coords, request.dropoff_coords}
        = {"coords"}

SomeDistanceFailed ==
    \/ request.dist_start_pick.asked /\ ~request.dist_start_pick.found
    \/ request.dist_pick_drop.asked /\ ~request.dist_pick_drop.found

\* C11: run_hos_simulation is invoked only after the three geocoding lookups
\* returned coordinates and both distance computations returned a distance;
\* a failed geocode ends in an error response with status 400, a failed
\* distance in one with status 500, and in both cases the simulation never
\* ran and no logs are returned.
C11_SimulationAfterLookups ==
    /\ SimulationEntered =>
           /\ EveryGeocodeAnswered
           /\ request.dist_start_pick.found
           /\ request.dist_pick_drop.found
    /\ (pc = "done" /\ SomeGeocodeFailed) =>
           /\ HttpStatus(response) = 400
           /\ DOMAIN response = {"error", "http_status"}
           /\ ~SimulationEntered
           /\ LedgerUntouched
    /\ (pc = "done" /\ SomeDistanceFailed) =>
           /\ HttpStatus(response) = 500
           /\ DOMAIN response = {"error", "http_status"}
           /\ ~SimulationEntered
           /\ LedgerUntouched

\* every address was geocoded, one distance lookup returned None, and the
\* request has ended with status 500
C11_Witness ==
    /\ pc = "done"
    /\ EveryGeocodeAnswered
    /\ request.dist_start_pick.found
    /\ ~request.dist_pick_drop.found
    /\ HttpStatus(response) = 500

NegativeInput ==
    \/ request.cycle_used < 0
    \/ request.dist_start_pick.found /\ request.dist_start_pick.miles < 0
    \/ request.dist_pick_drop.found /\ request.dist_pick_drop.miles < 0

\* C12: a negative leg distance or a negative cycle-used value is rejected
\* before the simulation begins: such a request never reaches the simulation
\* and never yields a log list.
C12_NegativeRejected ==
    NegativeInput =>
        /\ pc \notin {"simulate", "pretrip", "call1", "seg1", "loading", "call2",
                      "seg2", "unloading", "posttrip", "pad", "respond"}
        /\ ~SimulationEntered
        /\ pc = "done" => "logs" \notin DOMAIN response

(***************************************************************************)
(* Termination of run_hos_simulation.                                      *)
(***************************************************************************)
\* duration handed to the add_log_entry call the next step makes
NextEntryDuration ==
    CASE pc = "pretrip" -> Whole(30)
      [] pc \in {"loading", "unloading"} -> Whole(60)
      [] pc = "posttrip" -> Whole(15)
      [] pc = "pad" -> IF day_minute < 1440 THEN Whole(1440 - day_minute) ELSE 0
      [] InSegment ->
            IF NeedsRefuel \/ NeedsBreak THEN Whole(BREAK_DURATION)
            ELSE IF NeedsReset THEN Whole(SLEEPER_SPLIT)
            ELSE (min(dist_remaining, Whole(60)) * 60) \div AVG_MPH
      [] OTHER -> 0

\* every recursive call of add_log_entry(L, _, duration, _) receives a
\* remainder smaller than the duration of the call that makes it
RECURSIVE SplitDecreases(_, _)
SplitDecreases(L, duration) ==
    LET d == int(duration) IN
    IF d <= 0 THEN TRUE
    ELSE IF L.day_minute + d > 1440
         THEN LET remainder == (L.day_minute + d) - 1440
              IN  /\ remainder < d
                  /\ SplitDecreases(SplitAtMidnight(L, "", d, ""),
                                    Whole(remainder))
         ELSE TRUE

\* C13 (day-boundary split): whenever add_log_entry is about to be called,
\* each recursive call it makes for the part after midnight gets a remaining
\* duration strictly smaller than the duration it was called with.
C13_SplitStrictlyDecreases == SplitDecreases(TheLedger, NextEntryDuration)

\* C13 (simulate_segment): a Refuel, Mandated Break or 10h Reset zeroes a
\* counter that triggered it, and a driving chunk strictly decreases the
\* remaining distance.
C13_SegmentProgress ==
    [][/\ (last_step' = "Refuel" /\ InSegment) =>
              fuel_tank >= Whole(FUEL_RANGE_MILES) /\ fuel_tank' = 0
       /\ (last_step' = "Break" /\ InSegment) =>
              drive_since_break >= Whole(REQ_BREAK_AFTER)
              /\ drive_since_break' = 0
       /\ (last_step' = "Reset" /\ InSegment) =>
              \/ drive_shift >= Whole(MAX_DRIVE_SHIFT) /\ drive_shift' = 0
              \/ on_duty_shift >= Whole(MAX_ON_DUTY_SHIFT) /\ on_duty_shift' = 0
       /\ (last_step' = "Drive" /\ InSegment) =>
              dist_remaining' < dist_remaining]_vars

\* the run is not suspended between two steps of the function
SpecFair == Spec /\ WF_vars(Next)

\* C13 (termination): every run of run_hos_simulation reaches its return.
C13_Terminates == <>(pc = "done")

(***************************************************************************)
(* Rule priority in simulate_segment.                                      *)
(***************************************************************************)
\* C14: before any driving chunk the rules are tried in a fixed order, from
\* rule 1 again after each injection: with fuel_tank >= 1000 the next step is
\* a Refuel; a Mandated Break is injected only when the refuel rule does not
\* fire; a 10h Reset only when neither the refuel rule nor the break rule
\* fires; a chunk is driven only when no rule fires.
C14_RulePriority ==
    [][InSegment =>
          /\ fuel_tank >= Whole(1000) => last_step' = "Refuel"
          /\ last_step' = "Refuel" => fuel_tank >= Whole(1000)
          /\ last_step' = "Break" =>
                 /\ fuel_tank < Whole(1000)
                 /\ drive_since_break >= Whole(480)
          /\ last_step' = "Reset" =>
                 /\ fuel_tank < Whole(1000)
                 /\ drive_since_break < Whole(480)
                 /\ drive_shift >= Whole(660) \/ on_duty_shift >= Whole(840)
          /\ last_step' = "Drive" =>
                 /\ fuel_tank < Whole(1000)
                 /\ drive_since_break < Whole(480)
                 /\ drive_shift < Whole(660)
                 /\ on_duty_shift < Whole(840)]_vars

\* the fuel range and the 11-hour drive limit were reached together and the
\* Refuel has been injected first: the reset is still due
C14_Witness ==
    /\ InSegment
    /\ last_step = "Refuel"
    /\ fuel_tank = 0
    /\ drive_shift >= Whole(660)

(***************************************************************************)
(* add_log_entry as a function of the cursor.                              *)
(***************************************************************************)
AllDays(L) == Append(L.generated_logs, L.current_day_log)

\* minutes of wall time between the start of Day 1 and the cursor
WallTime(L) == 1440 * Len(L.generated_logs) + L.day_minute

\* the entries of ledger A that ledger B does not have, B being A before a call
RECURSIVE PiecesFrom(_, _, _)
PiecesFrom(A, B, i) ==
    IF i > Len(AllDays(A)) THEN <<>>
    ELSE LET old == IF i = Len(AllDays(B))
                    THEN Len(B.current_day_log.entries) ELSE 0
             es == AllDays(A)[i].entries
         IN  SubSeq(es, old + 1, Len(es)) \o PiecesFrom(A, B, i + 1)

Pieces(A, B) == PiecesFrom(A, B, Len(AllDays(B)))

\* C15: a call add_log_entry(status, d, note) with integer d > 0 at a cursor
\* in 0..1440 appends pieces that all carry the status and note, whose
\* durations sum to d, one piece in each of consecutive DayLogs starting with
\* the current one, every piece but the last ending at 1440 and every piece
\* but the first starting at 0, and moves the cursor and day count on by d
\* minutes of wall time; with d <= 0 the call changes nothing.
C15_SplitPreservesEntry ==
    last_call.n > 0 =>
        LET B == last_call.before
            A == TheLedger
            d == last_call.duration \div Scale
            ps == Pieces(A, B)
            k == Len(AllDays(B))
        IN  IF d <= 0 THEN A = B
            ELSE /\ B.day_minute \in 0 .. 1440
                 /\ \A i \in 1 .. Len(ps) :
                        /\ ps[i].status = last_call.status
                        /\ ps[i].note = last_call.note
                        /\ ps[i].endMinute - ps[i].startMinute = ps[i].duration
                        /\ i < Len(ps) => ps[i].endMinute = 1440
                        /\ i > 1 => ps[i].startMinute = 0
                 /\ Len(ps) >= 1
                 /\ ps[1].startMinute = B.day_minute
                 /\ SumDuration(ps, {last_call.status}) = d
                 /\ Len(ps) = Len(AllDays(A)) - k + 1
                 /\ \A i \in 1 .. k - 1 : AllDays(A)[i] = AllDays(B)[i]
                 /\ Len(AllDays(A)[k].entries)
                        = Len(B.current_day_log.entries) + 1
                 /\ SubSeq(AllDays(A)[k].entries, 1,
                           Len(B.current_day_log.entries))
                        = B.current_day_log.entries
                 /\ \A i \in k + 1 .. Len(AllDays(A)) :
                        Len(AllDays(A)[i].entries) = 1
                 /\ WallTime(A) = WallTime(B) + d
                 /\ A.day_minute \in 0 .. 1440

\* a call made in mid-day whose entry was cut into three pieces
C15_Witness ==
    /\ last_call.n > 0
    /\ last_call.before.day_minute > 0
    /\ last_call.before.day_minute < 1440
    /\ Len(Pieces(TheLedger, last_call.before)) = 3

(***************************************************************************)
(* Effect of the Mandated Break.                                           *)
(***************************************************************************)
\* the step from the unprimed to the primed state recorded one 30-minute
\* OFF entry (in one piece, or cut at midnight) for the break
BreakRecorded ==
    LET ps == Pieces(TheLedger', TheLedger)
    IN  /\ Len(ps) >= 1
        /\ \A i \in 1 .. Len(ps) :
               ps[i].status = "OFF" /\ ps[i].note = "Mandated 30m Break"
        /\ SumDuration(ps, {"OFF"}) = 30
        /\ WallTime(TheLedger') = WallTime(TheLedger) + 30

\* C16 as stated: a Mandated Break records a 30-minute OFF entry, sets the
\* driving time since the last break to 0 and leaves the shift driving time,
\* the shift on-duty time and the miles since fuel as they were.
C16_BreakLeavesOnDuty ==
    [][last_step' = "Break" =>
          /\ BreakRecorded
          /\ drive_since_break' = 0
          /\ drive_shift' = drive_shift
          /\ on_duty_shift' = on_duty_shift
          /\ fuel_tank' = fuel_tank]_vars

\* C16 amended: a Mandated Break records a 30-minute OFF entry, sets the
\* driving time since the last break to 0 and adds the 30 minutes of the
\* break to the shift on-duty time; the shift driving time and the miles
\* since fuel stay as they were.
C16_BreakCountsOnDuty ==
    [][last_step' = "Break" =>
          /\ BreakRecorded
          /\ drive_since_break' = 0
          /\ drive_shift' = drive_shift
          /\ on_duty_shift' = on_duty_shift + Whole(30)
          /\ fuel_tank' = fuel_tank]_vars

\* a break has just been injected after 8 hours of driving
C16_Witness ==
    /\ last_step = "Break"
    /\ drive_since_break = 0
    /\ drive_shift >= Whole(480)
    /\ on_duty_shift >= Whole(540)

(***************************************************************************)
(* Closed DayLogs.                                                         *)
(***************************************************************************)
\* C17: a DayLog that has been closed and appended to the output list is
\* never changed by a later step: its entries and its miles stay as they
\* were, and it keeps its place in the list.
C17_ClosedDayImmutable ==
    [][\A i \in 1 .. Len(generated_logs) :
           /\ Len(generated_logs') >= i
           /\ generated_logs'[i] = generated_logs[i]]_vars

\* Day 1 was closed by a split with miles credited to it, and a later chunk
\* has been driven and credited to the day after it
C17_Witness ==
    /\ Len(generated_logs) >= 1
    /\ generated_logs[1].miles > 0
    /\ last_step = "Drive"
    /\ current_day_log.miles > Whole(60)

(***************************************************************************)
(* The trip script in the returned timeline.                               *)
(***************************************************************************)
RECURSIVE Flatten(_)
Flatten(logs) ==
    IF logs = <<>> THEN <<>>
    ELSE Head(logs).entries \o Flatten(Tail(logs))

\* positions of the pieces of the event with this note
Where(T, note) == {i \in 1 .. Len(T) : T[i].note = note}

First(S) == CHOOSE i \in S : \A j \in S : i <= j
Last(S) == CHOOSE i \in S : \A j \in S : i >= j

\* one logical ON event of the given length: its pieces are next to each other
OnceFor(T, note, minutes) ==
    LET S == Where(T, note)
    IN  /\ S # {}
        /\ \A i \in First(S) .. Last(S) : i \in S /\ T[i].status = "ON"
        /\ SumDuration(SubSeq(T, First(S), Last(S)), {"ON"}) = minutes

\* C18: in the returned timeline the first entry of Day 1 is the 30-minute
\* Pre-Trip Inspection from minute 0; the 60-minute Loading comes after all
\* leg-1 driving and before any leg-2 driving, the 60-minute Unloading after
\* all leg-2 driving, then the 15-minute Post-Trip Inspection; each of the
\* four events occurs once, and only Off Duty padding follows the Post-Trip
\* Inspection.
C18_TripScript ==
    Returned =>
        LET T == Flatten(response.logs)
            load == Where(T, "Loading at Pickup")
            unload == Where(T, "Unloading at Dropoff")
            post == Where(T, "Post-Trip Inspection")
        IN  /\ response.logs[1].entries[1] =
                   [status |-> "ON", startMinute |-> 0, endMinute |-> 30,
                    duration |-> 30, note |-> "Pre-Trip Inspection"]
            /\ OnceFor(T, "Pre-Trip Inspection", 30)
            /\ OnceFor(T, "Loading at Pickup", 60)
            /\ OnceFor(T, "Unloading at Dropoff", 60)
            /\ OnceFor(T, "Post-Trip Inspection", 15)
            /\ Last(load) < First(unload)
            /\ SumDuration(SubSeq(T, 1, First(load) - 1), {"D"})
                   = int(dist_to_pickup)
            /\ SumDuration(SubSeq(T, Last(load) + 1, First(unload) - 1), {"D"})
                   = int(dist_to_drop)
            /\ SumDuration(SubSeq(T, Last(unload) + 1, Len(T)), {"D"}) = 0
            /\ First(post) = Last(unload) + 1
            /\ \A i \in Last(post) + 1 .. Len(T) :
                   T[i].status = "OFF" /\ T[i].note = "Off Duty"

\* a returned trip of two different legs, each longer than a chunk, over
\* more than one day
C18_Witness ==
    /\ Returned
    /\ dist_to_pickup > Whole(60)
    /\ dist_to_drop > Whole(60)
    /\ dist_to_pickup # dist_to_drop
    /\ Len(response.logs) >= 2

(***************************************************************************)
(* Returned DayLogs cover their day.                                       *)
(***************************************************************************)
\* C19: every returned DayLog has entries, its first entry starts at minute
\* 0, its last entry ends at minute 1440 and its durations sum to 1440; no
\* DayLog without entries is returned, also when the last scripted event
\* ends exactly at minute 1440.
C19_WholeDays ==
    Returned =>
        /\ Len(response.logs) >= 1
        /\ \A i \in 1 .. Len(response.logs) :
               LET es == response.logs[i].entries
               IN  /\ es # <<>>
                   /\ es[1].startMinute = 0
                   /\ es[Len(es)].endMinute = 1440
                   /\ SumDuration(es, {"ON", "OFF", "D", "SB"}) = 1440

\* the Post-Trip Inspection ended exactly at minute 1440, so that no padding
\* was added to the last day
C19_Witness ==
    /\ Returned
    /\ LET es == response.logs[Len(response.logs)].entries
       IN  /\ es[Len(es)].note = "Post-Trip Inspection"
           /\ es[Len(es)].endMinute = 1440

(***************************************************************************)
(* plan_eld_route: daily limits.                                           *)
(***************************************************************************)
\* on-duty minutes of a day's segments, as hundredths of an hour
RECURSIVE SegmentHours(_, _)
SegmentHours(segments, statuses) ==
    IF segments = <<>> THEN 0
    ELSE (IF Head(segments).status \in statuses
          THEN Head(segments).duration_h ELSE 0)
         + SegmentHours(Tail(segments), statuses)

\* C20: with the default parameters every planned day has driving_hours of
\* at most 11 and on_duty_hours of at most 14, where on_duty_hours is the
\* day's driving plus its pickup, fueling and dropoff events.
C20_DailyLimits ==
    \A i \in 1 .. Len(plan.days) :
        LET d == plan.days[i].segments
        IN  /\ d.driving_hours <= 1100
            /\ d.on_duty_hours <= 1400
            /\ SegmentHours(d.segments, {"DRIVING"}) <= 1100
            /\ SegmentHours(d.segments, {"DRIVING", "ON_DUTY"}) <= 1400
            /\ \A j \in 1 .. Len(d.segments) :
                   d.segments[j].status = "ON_DUTY" =>
                       d.segments[j].notes \in {"Pickup", "Fuel", "Dropoff final"}

\* a returned plan with a day of 11 hours of driving and a fueling stop
C20_Witness ==
    /\ plan.pc = "returned"
    /\ \E i \in 1 .. Len(plan.result.planned_days) :
           LET d == plan.result.planned_days[i].segments
           IN  /\ d.driving_hours = 1100
               /\ \E j \in 1 .. Len(d.segments) : d.segments[j].notes = "Fuel"

(***************************************************************************)
(* Cause of the 10h Reset.                                                 *)
(***************************************************************************)
\* C21: a 10h Reset is injected only from a state with drive_shift >= 660;
\* on_duty_shift >= 840 is never its sole cause, because the minutes of a
\* shift that are not driving (pre-trip, break, refuel, loading) stay below
\* 180 for as long as a leg is being driven.
C21_ResetByDriveLimit ==
    [][/\ last_step' = "Reset" => drive_shift >= Whole(660)
       /\ pc' \in {"seg1", "seg2"} =>
              on_duty_shift' - drive_shift' < Whole(180)]_vars

\* a reset has been injected in leg 2, in a shift that held the pre-trip
\* inspection, a break and the loading
C21_Witness ==
    /\ last_step = "Reset"
    /\ pc = "seg2"
    /\ Len(generated_logs) = 0
    /\ \E i \in 1 .. Len(current_day_log.entries) :
           current_day_log.entries[i].note = "Mandated 30m Break"

(***************************************************************************)
(* plan_eld_route: the segments of a day on the clock.                     *)
(***************************************************************************)
\* C22: within every planned day each segment starts when the segment
\* appended before it ends, so the segments are in chronological order and
\* do not overlap; on day 1 the first DRIVING segment starts when the Pickup
\* segment ends.
C22_SegmentsChained ==
    \A i \in 1 .. Len(plan.days) :
        LET segs == plan.days[i].segments.segments
        IN  \A j \in 1 .. Len(segs) - 1 :
                segs[j + 1].start_time = segs[j].end_time

====
